---------------------------- MODULE Spec2Model ----------------------------
(***************************************************************************)
(* A model of src/main.py: a FastAPI application over two SQLAlchemy       *)
(* tables, "users" and "items", stored in a MySQL database.                *)
(*                                                                         *)
(* The state is the two tables with their AUTO_INCREMENT counters, the     *)
(* requests in order of arrival (each at a position of its handler) and    *)
(* the number of open sessions each request holds.  Every statement        *)
(* that reaches the database is one atomic step; statements of different   *)
(* requests interleave freely.  The constraints the table declarations     *)
(* carry (PRIMARY KEY, UNIQUE, NOT NULL, FOREIGN KEY) are enforced by the  *)
(* storage engine at the INSERT, and a violation surfaces as an unhandled  *)
(* IntegrityError, i.e. a 500 response.                                    *)
(*                                                                         *)
(* Strings that are only stored and compared (email, title) are kept as    *)
(* given; an Optional value is the empty sequence (None) or a one-element  *)
(* sequence.  A response body is a sequence of response objects: one       *)
(* element for the single-object endpoints, the page for list endpoints.   *)
(***************************************************************************)
EXTENDS Integers, Sequences, FiniteSets, TLC

\* ------------------------------------------------------------------ bounds
\* Requests served at the same time.
MaxInFlight == 2
\* Requests served in one behaviour.
MaxRequests == 2
\* Request emails are 1..MaxEmail.
MaxEmail == 2
\* Path parameters user_id are 1..MaxUserId, and the first id past the bulk.
MaxUserId == 2
\* Rows of a database that already holds data when the process starts.
BulkUsers == 150
BulkItems == 100

\* --------------------------------------------------------- program constants
\* skip: int = 0, limit: int = 100 of read_users, read_items.
DefaultSkip == 0
DefaultLimit == 100

Slots == 1..MaxRequests
Emails == 1..MaxEmail
Passwords == {"pw"}
Titles == {"t1"}
None == <<>>
Some(x) == <<x>>
Descriptions == {None, Some("d1")}
PathUserIds == (1..MaxUserId) \cup {BulkUsers + 1}
\* (skip, limit) query parameters: the defaults, the second page, a short page.
PageArgs == {<<DefaultSkip, DefaultLimit>>, <<DefaultLimit, DefaultLimit>>, <<1, 1>>}

Min(a, b) == IF a < b THEN a ELSE b
Max(a, b) == IF a > b THEN a ELSE b
Range(s) == {s[i] : i \in 1..Len(s)}

VARIABLES users, items, userAutoInc, itemAutoInc, req, open, started, workers

vars == <<users, items, userAutoInc, itemAutoInc, req, open, started, workers>>

\* ------------------------------------------------------------ the tables
\* A row of "users": User(email=..., hashed_password=..., is_active=True).
NewUser(id, email, password) ==
    [id |-> id, email |-> email,
     hashed_password |-> password \o "notreallyhashed", is_active |-> TRUE]

\* A row of "items": Item(**item.dict(), owner_id=user_id).
NewItem(id, title, description, user_id) ==
    [id |-> id, title |-> title, description |-> description, owner_id |-> user_id]

\* The unique index on email missing: any email is accepted.
UniqueEmailOK_Unenforced(rows, email) == TRUE

\* email ... unique=True: no committed row may hold the email.
UniqueEmailOK(rows, email) == \A i \in 1..Len(rows) : rows[i].email # email

\* The foreign key on owner_id missing: any owner_id is accepted.
ForeignKeyOK_Unenforced(rows, user_id) == TRUE

\* owner_id ... ForeignKey("users.id"): the parent row must exist.
ForeignKeyOK(rows, user_id) == \E i \in 1..Len(rows) : rows[i].id = user_id

\* description: Mapped[str] is a NOT NULL column.
NotNullOK(description) == description # None

\* ----------------------------------------------------- response projection
\* ItemResponse (orm_mode): title, description, id, owner_id.
ItemResponseOf(it) ==
    [id |-> it.id, title |-> it.title, description |-> it.description,
     owner_id |-> it.owner_id]

\* The lazy load of User.items: the items whose owner_id is the user's id.
ItemsOf(itemRows, uid) ==
    LET own == SelectSeq(itemRows, LAMBDA it : it.owner_id = uid)
    IN  [i \in 1..Len(own) |-> ItemResponseOf(own[i])]

\* A projection that copies every column of the row.
UserResponseOf_WithSecret(u, itemRows) ==
    [id |-> u.id, email |-> u.email, is_active |-> u.is_active,
     hashed_password |-> u.hashed_password, items |-> ItemsOf(itemRows, u.id)]

\* UserResponse (orm_mode): email, id, is_active, items.
UserResponseOf(u, itemRows) ==
    [id |-> u.id, email |-> u.email, is_active |-> u.is_active,
     items |-> ItemsOf(itemRows, u.id)]

\* ------------------------------------------------------------- the queries
\* An offset that is one row too far.
Offset_OneTooFar(rows, skip) == SubSeq(rows, skip + 2, Len(rows))

\* .offset(skip): the rows after the first skip ones.
Offset(rows, skip) == SubSeq(rows, skip + 1, Len(rows))

\* .limit(limit): at most the first limit rows.
Limit(rows, limit) == SubSeq(rows, 1, Min(limit, Len(rows)))

\* A lookup that filters on the wrong column.
get_db_user_ByEmail(rows, user_id) ==
    LET hit == SelectSeq(rows, LAMBDA u : u.email = user_id)
    IN  IF hit = <<>> THEN None ELSE Some(Head(hit))

\* select(User).where(User.id == user_id) ... .first(): None or the row.
get_db_user(rows, user_id) ==
    LET hit == SelectSeq(rows, LAMBDA u : u.id = user_id)
    IN  IF hit = <<>> THEN None ELSE Some(Head(hit))

\* A lookup that filters on the wrong column.
get_db_user_by_email_ById(rows, email) ==
    LET hit == SelectSeq(rows, LAMBDA u : u.id = email)
    IN  IF hit = <<>> THEN None ELSE Some(Head(hit))

\* select(User).where(User.email == email) ... .first(): None or the row.
get_db_user_by_email(rows, email) ==
    LET hit == SelectSeq(rows, LAMBDA u : u.email = email)
    IN  IF hit = <<>> THEN None ELSE Some(Head(hit))

\* select(User).offset(skip).limit(limit) ... .all()
get_db_users(rows, skip, limit) == Limit(Offset(rows, skip), limit)

\* db.refresh(obj): the committed row of that primary key, read back.
Refreshed(rows, id) == CHOOSE u \in Range(rows) : u.id = id

\* A page that is one row short.
get_db_items_OneShort(rows, skip, limit) == Limit(Offset(rows, skip), limit - 1)

\* select(Item).offset(skip).limit(limit) ... .all()
get_db_items(rows, skip, limit) == Limit(Offset(rows, skip), limit)

\* ------------------------------------------------------------ the requests
Idle ==
    [op |-> "none", pc |-> "idle", email |-> 0, password |-> "", user_id |-> 0,
     title |-> "", description |-> None, skip |-> 0, limit |-> 0,
     status |-> 0, detail |-> "", resp |-> <<>>,
     emailTaken |-> FALSE, ownerExists |-> FALSE]

\* get_db without try/finally: close() runs after a return only.
ExitPc_ReturnOnly(status) == IF status = 200 THEN "finally" ELSE "done"

\* get_db: the try block is left through finally on a return and on a raise.
ExitPc(status) == "finally"

InFlight == {r \in Slots : req[r].pc \notin {"idle", "done"}}

\* Requests are numbered in the order they arrive; the server runs at most
\* workers handlers at the same time.
Free(r) ==
    /\ r = started + 1
    /\ Cardinality(InFlight) < workers

\* Depends(get_db) up to its yield: db = SessionLocal().
Accept(r, fields) ==
    /\ req' = [req EXCEPT ![r] = fields]
    /\ open' = [open EXCEPT ![r] = @ + 1]
    /\ started' = started + 1
    /\ UNCHANGED <<users, items, userAutoInc, itemAutoInc, workers>>

\* The handler's outcome: the response (or the raised error), then finally.
Finish(r, status, detail, resp) ==
    req' = [req EXCEPT ![r].status = status, ![r].detail = detail,
                       ![r].resp = resp, ![r].pc = ExitPc(status)]

TypeOK ==
    /\ userAutoInc \in Nat /\ itemAutoInc \in Nat
    /\ started \in 0..MaxRequests
    /\ workers \in 1..MaxInFlight
    /\ \A r \in Slots : req[r].pc \in {"idle", "lookup", "commit", "refresh",
                                       "query", "finally", "done"}

Init ==
    /\ users = <<>>
    /\ items = <<>>
    /\ userAutoInc = 1
    /\ itemAutoInc = 1
    /\ req = [r \in Slots |-> Idle]
    /\ open = [r \in Slots |-> 0]
    /\ started = 0
    /\ workers = MaxInFlight


\* A database that already holds rows when the process starts
\* (Base.metadata.create_all creates only the tables that are missing).
BulkUserRow(i) == NewUser(i, MaxEmail + i, "pw")
BulkItemRow(j) == NewItem(j, "t1", Some("d1"), ((j - 1) % MaxUserId) + 1)

\* The tables are empty, or hold BulkUsers accounts and BulkItems records, one
\* less, or none.
InitBulk ==
    /\ \E n \in {0, BulkUsers} :
          /\ users = [i \in 1..n |-> BulkUserRow(i)]
          /\ userAutoInc = n + 1
          /\ \E m \in IF n = 0 THEN {0} ELSE {0, BulkItems - 1, BulkItems} :
                /\ items = [j \in 1..m |-> BulkItemRow(j)]
                /\ itemAutoInc = m + 1
    /\ req = [r \in Slots |-> Idle]
    /\ open = [r \in Slots |-> 0]
    /\ started = 0
    /\ workers = 1

\* ------------------------------------------------------ POST /users/
Request_create_user(r) ==
    /\ Free(r)
    /\ \E e \in Emails, p \in Passwords :
           Accept(r, [Idle EXCEPT !.op = "create_user", !.pc = "lookup",
                                  !.email = e, !.password = p,
                                  !.emailTaken = ~UniqueEmailOK(users, e)])

\* db_user = get_db_user_by_email(db, email=user.email); if db_user: raise 400
create_user_lookup(r) ==
    /\ req[r].op = "create_user" /\ req[r].pc = "lookup"
    /\ IF get_db_user_by_email(users, req[r].email) # None
       THEN Finish(r, 400, "Email already registered", <<>>)
       ELSE req' = [req EXCEPT ![r].pc = "commit"]
    /\ UNCHANGED <<users, items, userAutoInc, itemAutoInc, open, started, workers>>

\* create_db_user: db.add(db_user); db.commit().  The INSERT takes the next
\* AUTO_INCREMENT value, also when the unique index rejects the row.
create_db_user_commit(r) ==
    /\ req[r].op = "create_user" /\ req[r].pc = "commit"
    /\ userAutoInc' = userAutoInc + 1
    /\ IF UniqueEmailOK(users, req[r].email)
       THEN /\ users' = Append(users, NewUser(userAutoInc, req[r].email,
                                              req[r].password))
            /\ req' = [req EXCEPT ![r].pc = "refresh", ![r].user_id = userAutoInc]
       ELSE /\ users' = users
            /\ Finish(r, 500, "IntegrityError", <<>>)
    /\ UNCHANGED <<items, itemAutoInc, open, started, workers>>

\* create_db_user: db.refresh(db_user); return db_user, projected to
\* UserResponse (the items are loaded in the transaction the refresh began).
create_db_user_refresh(r) ==
    /\ req[r].op = "create_user" /\ req[r].pc = "refresh"
    /\ LET db_user == Refreshed(users, req[r].user_id)
       IN  Finish(r, 200, "", <<UserResponseOf(db_user, items)>>)
    /\ UNCHANGED <<users, items, userAutoInc, itemAutoInc, open, started, workers>>

\* ------------------------------------------------------ GET /users/
Request_read_users(r) ==
    /\ Free(r)
    /\ \E a \in PageArgs :
           Accept(r, [Idle EXCEPT !.op = "read_users", !.pc = "query",
                                  !.skip = a[1], !.limit = a[2]])

read_users(r) ==
    /\ req[r].op = "read_users" /\ req[r].pc = "query"
    /\ LET page == get_db_users(users, req[r].skip, req[r].limit)
       IN  Finish(r, 200, "",
                  [i \in 1..Len(page) |-> UserResponseOf(page[i], items)])
    /\ UNCHANGED <<users, items, userAutoInc, itemAutoInc, open, started, workers>>

\* ------------------------------------------------------ GET /users/{user_id}
Request_read_user(r) ==
    /\ Free(r)
    /\ \E u \in PathUserIds :
           Accept(r, [Idle EXCEPT !.op = "read_user", !.pc = "query", !.user_id = u])

read_user(r) ==
    /\ req[r].op = "read_user" /\ req[r].pc = "query"
    /\ LET db_user == get_db_user(users, req[r].user_id)
       IN  IF db_user = None
           THEN Finish(r, 404, "User not found", <<>>)
           ELSE Finish(r, 200, "", <<UserResponseOf(Head(db_user), items)>>)
    /\ UNCHANGED <<users, items, userAutoInc, itemAutoInc, open, started, workers>>

\* ------------------------------------------------------ POST /users/{user_id}/items/
Request_create_item_for_user(r) ==
    /\ Free(r)
    /\ \E u \in PathUserIds, t \in Titles, d \in Descriptions :
           Accept(r, [Idle EXCEPT !.op = "create_item_for_user", !.pc = "commit",
                                  !.user_id = u, !.title = t, !.description = d,
                                  !.ownerExists = ForeignKeyOK(users, u)])

\* create_db_user_item: db.add(db_item); db.commit(); db.refresh(db_item).
\* A NULL in a NOT NULL column is rejected before a row id is taken; a missing
\* parent row is rejected after.  The refresh reads back the row just written,
\* which no request changes, so it is part of this step.
create_db_user_item(r) ==
    /\ req[r].op = "create_item_for_user" /\ req[r].pc = "commit"
    /\ LET db_item == NewItem(itemAutoInc, req[r].title, req[r].description,
                              req[r].user_id)
       IN  IF ~NotNullOK(db_item.description)
           THEN /\ UNCHANGED <<items, itemAutoInc>>
                /\ Finish(r, 500, "IntegrityError", <<>>)
           ELSE IF ~ForeignKeyOK(users, db_item.owner_id)
           THEN /\ items' = items
                /\ itemAutoInc' = itemAutoInc + 1
                /\ Finish(r, 500, "IntegrityError", <<>>)
           ELSE /\ items' = Append(items, db_item)
                /\ itemAutoInc' = itemAutoInc + 1
                /\ Finish(r, 200, "", <<ItemResponseOf(db_item)>>)
    /\ UNCHANGED <<users, userAutoInc, open, started, workers>>

\* ------------------------------------------------------ GET /items/
Request_read_items(r) ==
    /\ Free(r)
    /\ \E a \in PageArgs :
           Accept(r, [Idle EXCEPT !.op = "read_items", !.pc = "query",
                                  !.skip = a[1], !.limit = a[2]])

read_items(r) ==
    /\ req[r].op = "read_items" /\ req[r].pc = "query"
    /\ LET page == get_db_items(items, req[r].skip, req[r].limit)
       IN  Finish(r, 200, "", [i \in 1..Len(page) |-> ItemResponseOf(page[i])])
    /\ UNCHANGED <<users, items, userAutoInc, itemAutoInc, open, started, workers>>

\* ------------------------------------------------------ get_db, after the yield
\* finally: db.close()
get_db_finally(r) ==
    /\ req[r].pc = "finally"
    /\ open' = [open EXCEPT ![r] = @ - 1]
    /\ req' = [req EXCEPT ![r].pc = "done"]
    /\ UNCHANGED <<users, items, userAutoInc, itemAutoInc, started, workers>>

Next ==
    \E r \in Slots :
        \/ Request_create_user(r)
        \/ create_user_lookup(r)
        \/ create_db_user_commit(r)
        \/ create_db_user_refresh(r)
        \/ Request_read_users(r)
        \/ read_users(r)
        \/ Request_read_user(r)
        \/ read_user(r)
        \/ Request_create_item_for_user(r)
        \/ create_db_user_item(r)
        \/ Request_read_items(r)
        \/ read_items(r)
        \/ get_db_finally(r)

\* The process started on an empty database.
Spec == Init /\ [][Next]_vars

\* The process started on a database that may already hold rows, serving one
\* request at a time.
SpecBulk == InitBulk /\ [][Next]_vars

\* ------------------------------------------------------------ the claims
Done(r) == req[r].pc = "done"

\* A create_user request that found no account at its existence check.
PassedCheck(r) ==
    /\ req[r].op = "create_user"
    /\ \/ req[r].pc \in {"commit", "refresh"}
       \/ req[r].pc \in {"finally", "done"} /\ req[r].status # 400

\* Request r takes the step that leaves position pc of handler op.
Leaves(r, op, pc) == req[r].op = op /\ req[r].pc = pc /\ req'[r].pc # pc

\* The sessions open over all requests.
RECURSIVE OpenUpTo(_)
OpenUpTo(n) == IF n = 0 THEN 0 ELSE open[n] + OpenUpTo(n - 1)
OpenSessions == OpenUpTo(MaxRequests)

\* C1: under every interleaving of POST /users/ requests no two rows of users
\* hold the same email, and of the requests with one email that passed the
\* existence check at most one ends in success; every other one ends in the
\* storage error.
C1_EmailUnique ==
    /\ \A i, j \in 1..Len(users) : users[i].email = users[j].email => i = j
    /\ \A r1, r2 \in Slots :
          (/\ r1 # r2
           /\ PassedCheck(r1) /\ PassedCheck(r2)
           /\ req[r1].email = req[r2].email
           /\ Done(r1) /\ Done(r2))
          => /\ req[r1].status \in {200, 500}
             /\ req[r2].status \in {200, 500}
             /\ ~(req[r1].status = 200 /\ req[r2].status = 200)

\* Two requests with one email both passed the check; one committed, the
\* other ended in the storage error.
C1_Witness ==
    \E r1, r2 \in Slots :
        /\ r1 # r2
        /\ PassedCheck(r1) /\ PassedCheck(r2)
        /\ req[r1].email = req[r2].email
        /\ Done(r1) /\ Done(r2)
        /\ req[r1].status = 200 /\ req[r2].status = 500
        /\ Len(users) = 1

\* C2: a POST /users/ whose email a persisted account already has when it
\* arrives never reaches the insert: it ends with 400 "Email already
\* registered", and none of its steps changes a table.
C2_DuplicateEmailRejected ==
    [][\A r \in Slots :
          (/\ req[r].op = "create_user"
           /\ req[r].emailTaken
           /\ req'[r].pc # req[r].pc)
          => /\ users' = users
             /\ items' = items
             /\ req'[r].pc \in {"finally", "done"}
             /\ req'[r].status = 400
             /\ req'[r].detail = "Email already registered"
             /\ req'[r].resp = <<>>]_vars

\* A request for a taken email has ended with the 400.
C2_Witness ==
    \E r \in Slots :
        /\ req[r].op = "create_user" /\ req[r].emailTaken /\ Done(r)
        /\ req[r].status = 400
        /\ \E i \in 1..Len(users) : users[i].email = req[r].email

C4_NoOrphanedRecord ==
    \A i \in 1..Len(items) : \E j \in 1..Len(users) : users[j].id = items[i].owner_id

\* A create_item_for_user request has persisted a record.
C4_Witness ==
    \E r \in Slots :
        /\ req[r].op = "create_item_for_user" /\ Done(r) /\ req[r].status = 200
        /\ \E i \in 1..Len(items) : items[i].id = req[r].resp[1].id

\* C5: a request in flight holds exactly one open session, a request that has
\* finished (by a return, the 400, the 404 or a storage error) holds none, and
\* with no request in flight no session is open.
C5_SessionClosed ==
    /\ \A r \in Slots :
          /\ r \in InFlight => open[r] = 1
          /\ r \notin InFlight => open[r] = 0
    /\ InFlight = {} => OpenSessions = 0

\* A request has ended in a storage error, and no session is left open.
C5_Witness ==
    /\ InFlight = {}
    /\ OpenSessions = 0
    /\ \E r \in Slots : Done(r) /\ req[r].status = 500
    /\ \E r \in Slots : Done(r) /\ req[r].status = 200

\* The place of the row with this id in a table, 0 when there is none.
PositionOf(rows, id) ==
    IF \E i \in 1..Len(rows) : rows[i].id = id
    THEN CHOOSE i \in 1..Len(rows) : rows[i].id = id
    ELSE 0

Lists(r, c) ==
    \E k \in 1..Len(req'[r].resp) :
        /\ req'[r].resp[k] = req[c].resp[1]
        /\ req'[r].resp[k].owner_id = req[c].user_id
        /\ req'[r].resp[k].title = req[c].title
        /\ req'[r].resp[k].description = req[c].description

Created(c) ==
    req[c].op = "create_item_for_user" /\ Done(c) /\ req[c].status = 200

C8_ReadUser ==
    [][\A r \in Slots :
          /\ (req[r].op = "read_user" /\ req'[r].pc # req[r].pc)
             => users' = users /\ items' = items
          /\ Leaves(r, "read_user", "query")
             => LET p == PositionOf(users, req[r].user_id)
                IN  /\ (req'[r].status = 404) <=> (p = 0)
                    /\ p = 0 => /\ req'[r].detail = "User not found"
                                /\ req'[r].resp = <<>>
                    /\ p # 0 => /\ req'[r].status = 200
                                /\ Len(req'[r].resp) = 1
                                /\ req'[r].resp[1].id = req[r].user_id
                                /\ req'[r].resp[1].email = users[p].email
                                /\ req'[r].resp[1].is_active = users[p].is_active]_vars

\* A lookup of a persisted account has returned it.
C8_Witness ==
    \E r \in Slots :
        /\ req[r].op = "read_user" /\ Done(r) /\ req[r].status = 200
        /\ req[r].resp[1].id = req[r].user_id
        /\ PositionOf(users, req[r].user_id) # 0

\* C9 as claimed: the insert of a create_item_for_user whose user_id no
\* account has persists the record and returns it.
C9_AbsentOwnerAccepted ==
    [][\A r \in Slots :
          (/\ Leaves(r, "create_item_for_user", "commit")
           /\ PositionOf(users, req[r].user_id) = 0
           /\ req[r].description # None)
          => /\ req'[r].status = 200
             /\ Len(items') = Len(items) + 1
             /\ items'[Len(items')].owner_id = req[r].user_id]_vars

\* C9: a create_item_for_user whose user_id no account has is not stopped by
\* the handler (no owner lookup, no 404): it reaches the insert, the foreign
\* key of items.owner_id rejects the row, nothing is persisted and the request
\* ends in a storage error.
C9_AbsentOwnerRejectedByStorage ==
    [][\A r \in Slots :
          /\ (req[r].pc = "idle" /\ req'[r].op = "create_item_for_user")
             => req'[r].pc = "commit"
          /\ (/\ Leaves(r, "create_item_for_user", "commit")
              /\ PositionOf(users, req[r].user_id) = 0)
             => /\ items' = items
                /\ req'[r].status = 500
                /\ req'[r].detail = "IntegrityError"
                /\ req'[r].resp = <<>>]_vars

\* A request for an absent owner, description given, ended in the storage
\* error with nothing persisted.
C9_Witness ==
    \E r \in Slots :
        /\ req[r].op = "create_item_for_user" /\ Done(r)
        /\ req[r].description # None
        /\ PositionOf(users, req[r].user_id) = 0
        /\ req[r].status = 500
        /\ items = <<>>

\* C10: every valid create_item_for_user request for an existing owner, an
\* absent description included, persists a record and returns it with the
\* generated id, the title, the description and the owner_id.
C10_ValidRequestPersists ==
    \A r \in Slots :
        (req[r].op = "create_item_for_user" /\ req[r].ownerExists /\ Done(r))
        => /\ req[r].status = 200
           /\ Len(req[r].resp) = 1
           /\ req[r].resp[1].title = req[r].title
           /\ req[r].resp[1].description = req[r].description
           /\ req[r].resp[1].owner_id = req[r].user_id
           /\ PositionOf(items, req[r].resp[1].id) # 0

=============================================================================
